---- MODULE Spec2Model ----
(***************************************************************************)
(* State-machine model of the voice session client (App component):        *)
(* credential handling, session lifecycle (handleNewSession, stopSession,  *)
(* the four session callbacks), the turn aggregator and the playback       *)
(* scheduler inside onmessage.                                             *)
(*                                                                         *)
(* Objects with identity (audio contexts, microphone streams, capture      *)
(* nodes, connections) are indexed by the number of the start request      *)
(* that created them; a ref holds such a number, 0 stands for null.        *)
(* Strings are sequences of one-character strings.                         *)
(***************************************************************************)
EXTENDS Integers, Sequences, FiniteSets, TLC

\* ------------------------------------------------------------------ bounds
MaxSessions == 2    \* start requests that create audio contexts
MaxFrags    == 3    \* audio fragments accepted over a run
MaxTime     == 2    \* ticks of the output audio clock
MaxText     == 2    \* characters held by one accumulator
MaxLog      == 2    \* messages in the transcript log
MaxInflight == 2    \* onmessage invocations suspended in a decode

Sessions == 1..MaxSessions

VARIABLES
  \* credential and UI state
  aiRef, isApiKeySet, isApiKeyModalOpen, isSessionActive, statusMessage,
  \* turn aggregator
  messages, currentUserTranscriptionRef, currentTutorTranscriptionRef,
  displayUserTranscription, displayTutorTranscription,
  \* refs
  sessionPromiseRef, streamRef, inputAudioContextRef, outputAudioContextRef,
  scriptProcessorRef, mediaStreamSourceRef, nextStartTimeRef, audioPlaybackSources,
  \* the objects behind the refs
  conn,          \* connection of each session: none, pending, open, errored, closed
  closeAsked,    \* sessions whose promise got .then(session => session.close())
  inputCtx,      \* state of each input AudioContext: none, running, closed
  outputCtx,     \* state of each output AudioContext
  stream,        \* each MediaStream: none, live, stopped
  processor,     \* each ScriptProcessorNode: none, connected, disconnected
  mediaSource,   \* each MediaStreamAudioSourceNode
  sources,       \* every AudioBufferSourceNode started so far, in start() order
  closeRejected, \* close() was called on an AudioContext already closed
  \* suspended asynchronous work
  micPending,    \* onopen invocations waiting in getUserMedia
  inflight,      \* onmessage invocations waiting in decodeAudioData
  currentTime,   \* currentTime of the context outputAudioContextRef holds
  \* history, read only by the properties
  flushMark,     \* number of sources started before the latest flush
  afterIntr,     \* an interruption was applied and no fragment received since
  turnU, turnT,   \* text received in the latest turn, complete or not
  turnOpen,       \* the latest turn has not been completed
  emitU, emitT,   \* the same, were turn completions without text ignored
  emitOpen,
  last,          \* the handler that ran in the latest step
  \* outbound audio
  resolved,      \* sessions whose connection promise has resolved
  queued,        \* per promise: frames whose then-callback waits for it
  sent,          \* per session: frames given to sendRealtimeInput, in order
  frames         \* for each frame captured, the promise it was handed to (0: none)

credVars == <<aiRef, isApiKeySet, isApiKeyModalOpen>>
textVars == <<messages, currentUserTranscriptionRef, currentTutorTranscriptionRef,
              displayUserTranscription, displayTutorTranscription>>
heapVars == <<isSessionActive, statusMessage, sessionPromiseRef, streamRef,
              inputAudioContextRef, outputAudioContextRef, scriptProcessorRef,
              mediaStreamSourceRef, nextStartTimeRef, audioPlaybackSources,
              closeAsked, inputCtx, outputCtx, stream, processor, mediaSource,
              sources, closeRejected, flushMark>>
histVars == <<afterIntr, turnU, turnT, turnOpen, emitU, emitT, emitOpen>>
capVars  == <<resolved, queued, sent, frames>>
vars == <<credVars, textVars, heapVars, conn, micPending, inflight, currentTime,
          histVars, last, capVars>>

\* ------------------------------------------------------------------ the heap
\* The refs and objects stopSession works on, as one record, so that handlers
\* that call stopSession after other assignments compose as functions.
H ==
  [isSessionActive |-> isSessionActive, statusMessage |-> statusMessage,
   sessionPromiseRef |-> sessionPromiseRef, streamRef |-> streamRef,
   inputAudioContextRef |-> inputAudioContextRef,
   outputAudioContextRef |-> outputAudioContextRef,
   scriptProcessorRef |-> scriptProcessorRef,
   mediaStreamSourceRef |-> mediaStreamSourceRef,
   nextStartTimeRef |-> nextStartTimeRef,
   audioPlaybackSources |-> audioPlaybackSources,
   closeAsked |-> closeAsked, inputCtx |-> inputCtx, outputCtx |-> outputCtx,
   stream |-> stream, processor |-> processor, mediaSource |-> mediaSource,
   sources |-> sources, closeRejected |-> closeRejected, flushMark |-> flushMark]

SetHeap(h) ==
  /\ isSessionActive' = h.isSessionActive
  /\ statusMessage' = h.statusMessage
  /\ sessionPromiseRef' = h.sessionPromiseRef
  /\ streamRef' = h.streamRef
  /\ inputAudioContextRef' = h.inputAudioContextRef
  /\ outputAudioContextRef' = h.outputAudioContextRef
  /\ scriptProcessorRef' = h.scriptProcessorRef
  /\ mediaStreamSourceRef' = h.mediaStreamSourceRef
  /\ nextStartTimeRef' = h.nextStartTimeRef
  /\ audioPlaybackSources' = h.audioPlaybackSources
  /\ closeAsked' = h.closeAsked
  /\ inputCtx' = h.inputCtx
  /\ outputCtx' = h.outputCtx
  /\ stream' = h.stream
  /\ processor' = h.processor
  /\ mediaSource' = h.mediaSource
  /\ sources' = h.sources
  /\ closeRejected' = h.closeRejected
  /\ flushMark' = h.flushMark

\* source.stop() on every tracked source
StopTracked(h) ==
  [i \in DOMAIN h.sources |->
     IF i \in h.audioPlaybackSources
       THEN [h.sources[i] EXCEPT !.st = "stopped"]
       ELSE h.sources[i]]

\* stopSession, lines 118-133: the microphone stream, the capture nodes and the
\* input context. A context already closed keeps its ref.
releaseCaptureUnguarded(h) ==
  LET held == h.inputAudioContextRef # 0
  IN [h EXCEPT
        !.stream = IF h.streamRef # 0
                     THEN [@ EXCEPT ![h.streamRef] = "stopped"] ELSE @,
        !.streamRef = 0,
        !.processor = IF h.scriptProcessorRef # 0
                        THEN [@ EXCEPT ![h.scriptProcessorRef] = "disconnected"] ELSE @,
        !.scriptProcessorRef = 0,
        !.mediaSource = IF h.mediaStreamSourceRef # 0
                          THEN [@ EXCEPT ![h.mediaStreamSourceRef] = "disconnected"] ELSE @,
        !.mediaStreamSourceRef = 0,
        !.closeRejected = @ \/ (held /\ h.inputCtx[h.inputAudioContextRef] = "closed"),
        !.inputCtx = IF held THEN [@ EXCEPT ![h.inputAudioContextRef] = "closed"] ELSE @]

releaseCapture(h) ==
  LET closeIn == h.inputAudioContextRef # 0
                 /\ h.inputCtx[h.inputAudioContextRef] # "closed"
  IN [h EXCEPT
        !.stream = IF h.streamRef # 0
                     THEN [@ EXCEPT ![h.streamRef] = "stopped"] ELSE @,
        !.streamRef = 0,
        !.processor = IF h.scriptProcessorRef # 0
                        THEN [@ EXCEPT ![h.scriptProcessorRef] = "disconnected"] ELSE @,
        !.scriptProcessorRef = 0,
        !.mediaSource = IF h.mediaStreamSourceRef # 0
                          THEN [@ EXCEPT ![h.mediaStreamSourceRef] = "disconnected"] ELSE @,
        !.mediaStreamSourceRef = 0,
        !.inputCtx = IF closeIn THEN [@ EXCEPT ![h.inputAudioContextRef] = "closed"] ELSE @,
        !.inputAudioContextRef = IF closeIn THEN 0 ELSE @]

\* stopSession, lines 134-135: close is asked of the promise, whatever its state.
closeRemote(h) ==
  [h EXCEPT
     !.closeAsked = IF h.sessionPromiseRef # 0 THEN @ \cup {h.sessionPromiseRef} ELSE @,
     !.sessionPromiseRef = 0]

\* Stop and forget every tracked source and rewind the cursor: stopSession,
\* lines 137-138 and 143, and the interrupted branch of onmessage.
flushPlayback(h) ==
  [h EXCEPT !.sources = StopTracked(h),
            !.audioPlaybackSources = {},
            !.flushMark = Len(h.sources),
            !.nextStartTimeRef = 0]

\* stopSession, lines 139-142
closeOutputSkipped(h) == h

closeOutput(h) ==
  LET closeOut == h.outputAudioContextRef # 0
                  /\ h.outputCtx[h.outputAudioContextRef] # "closed"
  IN [h EXCEPT
        !.outputCtx = IF closeOut THEN [@ EXCEPT ![h.outputAudioContextRef] = "closed"] ELSE @,
        !.outputAudioContextRef = IF closeOut THEN 0 ELSE @]

stopSession(h) ==
  [closeOutput(flushPlayback(closeRemote(releaseCapture(h)))) EXCEPT
     !.isSessionActive = FALSE,
     !.statusMessage = "Session ended. Click the microphone to practice again."]

\* ------------------------------------------------------------------ history
\* op: the handler and the path taken through it; s: the session whose callback
\* it was (0 for a user action); stop: it ran stopSession; tc, intr: the message
\* it handled carried turnComplete, interrupted. For a resumed onmessage, about
\* the fragment it started: pre, the fragment arrived before an interruption
\* since applied; first, it was the first fragment received after one, at clock
\* recv; conc, another invocation was suspended while it was decoded.
\* late: a fragment the service emitted earlier was still waiting for its
\* decode. A suspended invocation carries idx, the place of its fragment in the
\* order of emission.
Did(op, s, stop) ==
  [op |-> op, s |-> s, stop |-> stop, tc |-> FALSE, intr |-> FALSE,
   pre |-> FALSE, first |-> FALSE, recv |-> 0, conc |-> FALSE, late |-> FALSE]
DidMsg(op, s, tc, intr) ==
  [op |-> op, s |-> s, stop |-> FALSE, tc |-> tc, intr |-> intr,
   pre |-> FALSE, first |-> FALSE, recv |-> 0, conc |-> FALSE, late |-> FALSE]
DidStart(op, w) ==
  [op |-> op, s |-> w.s, stop |-> FALSE, tc |-> FALSE, intr |-> w.intr,
   pre |-> w.pre, first |-> w.first, recv |-> w.recv, conc |-> w.conc,
   late |-> FALSE]

\* ------------------------------------------------------------------ start-up
\* The state after the component has mounted and the credential effect has run:
\* a saved key that initializes, no saved key, or a saved key that fails.
Init ==
  /\ \E saved \in {"valid", "absent", "invalid"} :
       /\ aiRef = (saved = "valid")
       /\ isApiKeySet = (saved = "valid")
       /\ isApiKeyModalOpen = (saved # "valid")
       /\ statusMessage = CASE saved = "valid" -> "API Key loaded. Click the microphone to start."
                            [] saved = "absent" -> "Please set your API Key to begin."
                            [] OTHER -> "Invalid API Key found. Please set a new one."
  /\ isSessionActive = FALSE
  /\ messages = <<>>
  /\ currentUserTranscriptionRef = <<>>
  /\ currentTutorTranscriptionRef = <<>>
  /\ displayUserTranscription = <<>>
  /\ displayTutorTranscription = <<>>
  /\ sessionPromiseRef = 0
  /\ streamRef = 0
  /\ inputAudioContextRef = 0
  /\ outputAudioContextRef = 0
  /\ scriptProcessorRef = 0
  /\ mediaStreamSourceRef = 0
  /\ nextStartTimeRef = 0
  /\ audioPlaybackSources = {}
  /\ conn = [s \in Sessions |-> "none"]
  /\ closeAsked = {}
  /\ inputCtx = [s \in Sessions |-> "none"]
  /\ outputCtx = [s \in Sessions |-> "none"]
  /\ stream = [s \in Sessions |-> "none"]
  /\ processor = [s \in Sessions |-> "none"]
  /\ mediaSource = [s \in Sessions |-> "none"]
  /\ sources = <<>>
  /\ closeRejected = FALSE
  /\ micPending = {}
  /\ inflight = <<>>
  /\ currentTime = 0
  /\ flushMark = 0
  /\ afterIntr = FALSE
  /\ turnU = <<>>
  /\ turnT = <<>>
  /\ turnOpen = TRUE
  /\ emitU = <<>>
  /\ emitT = <<>>
  /\ emitOpen = TRUE
  /\ last = Did("mount", 0, FALSE)
  /\ resolved = {}
  /\ queued = [s \in Sessions |-> <<>>]
  /\ sent = [s \in Sessions |-> <<>>]
  /\ frames = <<>>

\* ------------------------------------------------------------------ credential
\* handleSaveApiKey: a blank input or a key initializeAi rejects only alerts.
handleSaveApiKey(input) ==
  /\ IF input = "good"
       THEN /\ aiRef' = TRUE
            /\ isApiKeySet' = TRUE
            /\ isApiKeyModalOpen' = FALSE
            /\ statusMessage' = "API Key set! Ready to start a session."
       ELSE UNCHANGED <<credVars, statusMessage>>
  /\ last' = Did("save", 0, FALSE)
  /\ UNCHANGED <<textVars, isSessionActive, sessionPromiseRef, streamRef,
                 inputAudioContextRef, outputAudioContextRef, scriptProcessorRef,
                 mediaStreamSourceRef, nextStartTimeRef, audioPlaybackSources,
                 closeAsked, inputCtx, outputCtx, stream, processor, mediaSource,
                 sources, closeRejected, flushMark, conn, micPending, inflight,
                 currentTime, histVars,
                 capVars>>

\* ------------------------------------------------------------------ lifecycle
\* The next object number: one more than the audio contexts created so far.
NewId == Cardinality({s \in Sessions : inputCtx[s] # "none"}) + 1

\* The body of handleNewSession; outcome "throw" is connectToLiveSession (or
\* what it calls) throwing synchronously, which the catch block handles.
\* handleNewSession, line 153
CredentialAssumed == FALSE

CredentialMissing == ~aiRef

handleNewSession(outcome, op) ==
  LET h0 == IF isSessionActive THEN stopSession(H) ELSE H
      id == NewId
      h1 == [h0 EXCEPT !.statusMessage = "Connecting to tutor...",
                       !.inputCtx = [@ EXCEPT ![id] = "running"],
                       !.inputAudioContextRef = id,
                       !.outputCtx = [@ EXCEPT ![id] = "running"],
                       !.outputAudioContextRef = id]
  IN IF CredentialMissing
       THEN /\ SetHeap([h0 EXCEPT !.statusMessage = "API Key not set. Please set it in the settings."])
            /\ isApiKeyModalOpen' = TRUE
            /\ UNCHANGED <<aiRef, isApiKeySet, textVars, conn, currentTime, histVars>>
            /\ last' = Did(op, 0, isSessionActive)
            /\ UNCHANGED <<micPending, inflight, capVars>>
       ELSE /\ id <= MaxSessions
            /\ messages' = <<>>
            /\ displayUserTranscription' = <<>>
            /\ displayTutorTranscription' = <<>>
            /\ currentUserTranscriptionRef' = <<>>
            /\ currentTutorTranscriptionRef' = <<>>
            /\ turnU' = <<>> /\ turnT' = <<>> /\ turnOpen' = TRUE
            /\ emitU' = <<>> /\ emitT' = <<>> /\ emitOpen' = TRUE
            /\ currentTime' = 0
            /\ IF outcome = "ok"
                 THEN /\ SetHeap([h1 EXCEPT !.sessionPromiseRef = id])
                      /\ conn' = [conn EXCEPT ![id] = "pending"]
                 ELSE /\ SetHeap([h1 EXCEPT
                           !.statusMessage = "Failed to start session. Check your API key or connection.",
                           !.isSessionActive = FALSE])
                      /\ UNCHANGED conn
            /\ UNCHANGED <<credVars, afterIntr>>
            /\ last' = Did(op, 0, isSessionActive)
            /\ UNCHANGED <<micPending, inflight, capVars>>

\* The "Start New Session" button.
NewSessionClick(outcome) == handleNewSession(outcome, "new")

\* handleMicButtonClick
handleMicButtonClick(outcome) ==
  IF ~isApiKeySet
    THEN /\ isApiKeyModalOpen' = TRUE
         /\ last' = Did("mic_modal", 0, FALSE)
         /\ UNCHANGED <<aiRef, isApiKeySet, textVars, heapVars, conn, micPending,
                        inflight, currentTime, histVars,
                 capVars>>
    ELSE IF isSessionActive
      THEN /\ SetHeap(stopSession(H))
           /\ last' = Did("mic_stop", 0, TRUE)
           /\ UNCHANGED <<credVars, textVars, conn, micPending, inflight,
                          currentTime, histVars,
                 capVars>>
      ELSE handleNewSession(outcome, "mic_start")

\* onopen, up to the await of getUserMedia
onopen(s) ==
  /\ conn[s] = "pending"
  /\ conn' = [conn EXCEPT ![s] = "open"]
  /\ SetHeap([H EXCEPT !.isSessionActive = TRUE,
                       !.statusMessage = "Connected! Start speaking when you are ready."])
  /\ micPending' = micPending \cup {s}
  /\ last' = Did("onopen", s, FALSE)
  /\ UNCHANGED <<credVars, textVars, inflight, currentTime, histVars,
                 capVars>>

\* onopen resumed with a stream: the capture graph is built on the context
\* inputAudioContextRef holds now; a null ref throws into the catch block.
onopenGranted(s) ==
  /\ s \in micPending
  /\ micPending' = micPending \ {s}
  /\ LET h1 == [H EXCEPT !.streamRef = s, !.stream = [@ EXCEPT ![s] = "live"]]
     IN IF h1.inputAudioContextRef = 0
          THEN /\ SetHeap(stopSession([h1 EXCEPT !.statusMessage =
                             "Microphone access denied. Please allow permission."]))
               /\ last' = Did("onopen_throw", s, TRUE)
          ELSE /\ SetHeap([h1 EXCEPT
                    !.mediaStreamSourceRef = s,
                    !.mediaSource = [@ EXCEPT ![s] = "connected"],
                    !.scriptProcessorRef = s,
                    !.processor = [@ EXCEPT ![s] = "connected"]])
               /\ last' = Did("onopen_granted", s, FALSE)
  /\ UNCHANGED <<credVars, textVars, conn, inflight, currentTime, histVars,
                 capVars>>

\* onopen resumed with getUserMedia rejecting
onopenDenied(s) ==
  /\ s \in micPending
  /\ micPending' = micPending \ {s}
  /\ SetHeap(stopSession([H EXCEPT !.statusMessage =
                             "Microphone access denied. Please allow permission."]))
  /\ last' = Did("onopen_denied", s, TRUE)
  /\ UNCHANGED <<credVars, textVars, conn, inflight, currentTime, histVars,
                 capVars>>

onerror(s) ==
  /\ conn[s] \in {"pending", "open"}
  /\ conn' = [conn EXCEPT ![s] = "errored"]
  /\ SetHeap(stopSession([H EXCEPT !.statusMessage =
                             "A connection error occurred. Please restart."]))
  /\ last' = Did("onerror", s, TRUE)
  /\ UNCHANGED <<credVars, textVars, micPending, inflight, currentTime, histVars,
                 capVars>>

onclose(s) ==
  /\ conn[s] \in {"open", "errored"}
  /\ conn' = [conn EXCEPT ![s] = "closed"]
  /\ SetHeap(stopSession(H))
  /\ last' = Did("onclose", s, TRUE)
  /\ UNCHANGED <<credVars, textVars, micPending, inflight, currentTime, histVars,
                 capVars>>

\* ------------------------------------------------------------------ capture
MaxCaptured == 3    \* frames captured over a run

\* The outbound state as one record
C == [resolved |-> resolved, queued |-> queued, sent |-> sent]

\* onaudioprocess, lines 185-187: then(session => session.sendRealtimeInput(..))
\* on promise p for frame n. On a resolved promise the callback runs as soon as
\* the handler returns; on a pending one it waits, behind those registered
\* before it.
thenSendIfResolved(c, p, n) ==
  IF p \in c.resolved THEN [c EXCEPT !.sent[p] = Append(@, n)] ELSE c

thenSend(c, p, n) ==
  IF p \in c.resolved
    THEN [c EXCEPT !.sent[p] = Append(@, n)]
    ELSE [c EXCEPT !.queued[p] = Append(@, n)]

\* The capture node of session s delivers a frame: lines 182-188.
onaudioprocess(s) ==
  /\ processor[s] = "connected"
  /\ Len(frames) < MaxCaptured
  /\ LET n == Len(frames) + 1
         p == sessionPromiseRef
         c == IF p = 0 THEN C ELSE thenSend(C, p, n)
     IN /\ frames' = Append(frames, p)
        /\ resolved' = c.resolved
        /\ queued' = c.queued
        /\ sent' = c.sent
  /\ last' = Did("onaudioprocess", s, FALSE)
  /\ UNCHANGED <<credVars, textVars, heapVars, conn, micPending, inflight,
                 currentTime, histVars>>

\* The promise of session s resolves, after its onopen has run: the callbacks
\* waiting on it run in the order of their registration.
sessionResolved(s) ==
  /\ conn[s] = "open"
  /\ s \notin resolved
  /\ resolved' = resolved \cup {s}
  /\ sent' = [sent EXCEPT ![s] = @ \o queued[s]]
  /\ queued' = [queued EXCEPT ![s] = <<>>]
  /\ last' = Did("resolved", s, FALSE)
  /\ UNCHANGED <<credVars, textVars, heapVars, conn, micPending, inflight,
                 currentTime, histVars, frames>>

\* ------------------------------------------------------------------ text
\* String.prototype.trim over the model's alphabet, where " " is the white space.
RECURSIVE TrimStart(_)
TrimStart(str) ==
  IF str # <<>> /\ Head(str) = " " THEN TrimStart(Tail(str)) ELSE str

RECURSIVE TrimEnd(_)
TrimEnd(str) ==
  IF str # <<>> /\ str[Len(str)] = " "
    THEN TrimEnd(SubSeq(str, 1, Len(str) - 1)) ELSE str

trimStartOnly(str) == TrimStart(str)

trim(str) == TrimEnd(TrimStart(str))

\* onmessage, lines 209-211: the messages one turn completion appends
newMessagesUnchecked(userText, tutorText) ==
  <<[role |-> "user", content |-> userText]>>
  \o (IF tutorText # <<>> THEN <<[role |-> "ai", content |-> tutorText]>> ELSE <<>>)

newMessages(userText, tutorText) ==
  (IF userText # <<>> THEN <<[role |-> "user", content |-> userText]>> ELSE <<>>)
  \o (IF tutorText # <<>> THEN <<[role |-> "ai", content |-> tutorText]>> ELSE <<>>)

\* onmessage, line 212: setMessages(prev => [...prev, ...newMessages])
prependMessages(prev, new) == new \o prev

appendMessages(prev, new) == prev \o new

\* ------------------------------------------------------------------ messages
\* A LiveServerMessage: inT and outT are the transcription texts (<<>> when the
\* field is absent), parts the audio fragments of modelTurn, each given by the
\* duration of the buffer it decodes to.
Msg(inT, outT, tc, parts, intr) ==
  [inT |-> inT, outT |-> outT, turnComplete |-> tc, parts |-> parts,
   interrupted |-> intr]

Max(a, b) == IF a >= b THEN a ELSE b

RECURSIVE PendingParts(_)
PendingParts(fl) ==
  IF fl = <<>> THEN 0 ELSE 1 + Len(Head(fl).rest) + PendingParts(Tail(fl))

\* The place of the next fragment to arrive in the order the service emits
\* them, counted among the fragments suspended invocations hold: after all.
NextIdx ==
  LET seen == {0} \cup {inflight[k].idx + Len(inflight[k].rest) : k \in DOMAIN inflight}
  IN 1 + CHOOSE n \in seen : \A o \in seen : n >= o

\* The places are kept relative: the earliest fragment still waiting is 1.
Renumber(fl) ==
  IF fl = <<>> THEN fl
  ELSE LET lo == CHOOSE n \in {fl[k].idx : k \in DOMAIN fl} :
                   \A k \in DOMAIN fl : n <= fl[k].idx
       IN [k \in DOMAIN fl |-> [fl[k] EXCEPT !.idx = @ - lo + 1]]

\* Every suspended invocation holds fragments that arrived before the
\* interruption now applied.
MarkPre(fl) == [k \in DOMAIN fl |-> [fl[k] EXCEPT !.pre = TRUE]]

\* Every suspended invocation now waits beside another one.
MarkConc(fl) == [k \in DOMAIN fl |-> [fl[k] EXCEPT !.conc = TRUE]]

\* The buffer decodeAudioData resolves with, as its duration.
decodeAudioData(data) == data

\* onmessage, line 226: the cursor is brought up to the clock
seedAtClock(cursor, now) == now

seedCursor(cursor, now) == Max(cursor, now)

\* onmessage from the top of one iteration of the parts loop (line 222) to the
\* next await or the end of the handler: x is [h, fl, ai] (heap, suspended
\* invocations, afterIntr); the result adds how the run ended.

partsLoop(x, s, parts, intr, pre, idx) ==
  IF parts = <<>>
    THEN IF intr
           THEN [h |-> flushPlayback(x.h), fl |-> MarkPre(x.fl), ai |-> TRUE,
                 end |-> "done"]
           ELSE [h |-> x.h, fl |-> x.fl, ai |-> x.ai, end |-> "done"]
    ELSE IF x.h.outputAudioContextRef = 0
      THEN [h |-> x.h, fl |-> x.fl, ai |-> x.ai, end |-> "throw"]
      ELSE [h |-> [x.h EXCEPT !.nextStartTimeRef = seedCursor(@, currentTime)],
            fl |-> Append(MarkConc(x.fl),
                     [s |-> s, ctx |-> x.h.outputAudioContextRef,
                      data |-> Head(parts), rest |-> Tail(parts), intr |-> intr,
                      pre |-> pre, first |-> x.ai /\ ~pre, recv |-> currentTime,
                      conc |-> x.fl # <<>>, idx |-> idx]),
            ai |-> x.ai /\ pre, end |-> "await"]

\* What the service has said, kept apart from the accumulators: the text of the
\* latest turn, and the text since the latest turn completion that had text.
\* Both references obey the accumulators' bound.
Stripped(str) ==
  LET ink == {i \in 1..Len(str) : str[i] # " "}
  IN IF ink = {} THEN <<>>
     ELSE SubSeq(str, CHOOSE i \in ink : \A j \in ink : i <= j,
                      CHOOSE i \in ink : \A j \in ink : i >= j)

Heard(m) ==
  LET u == (IF turnOpen THEN turnU ELSE <<>>) \o m.inT
      t == (IF turnOpen THEN turnT ELSE <<>>) \o m.outT
      eu == (IF emitOpen THEN emitU ELSE <<>>) \o m.inT
      et == (IF emitOpen THEN emitT ELSE <<>>) \o m.outT
  IN /\ Len(eu) <= MaxText /\ Len(et) <= MaxText
     /\ turnU' = u /\ turnT' = t
     /\ turnOpen' = ~m.turnComplete
     /\ emitU' = eu /\ emitT' = et
     /\ emitOpen' = ~(m.turnComplete /\ (Stripped(u) # <<>> \/ Stripped(t) # <<>>))

\* onmessage, lines 198-218: transcripts and turn completion
onmessageText(m) ==
  LET user  == currentUserTranscriptionRef \o m.inT
      tutor == currentTutorTranscriptionRef \o m.outT
      new   == newMessages(trim(user), trim(tutor))
  IN /\ Len(user) <= MaxText /\ Len(tutor) <= MaxText
     /\ Heard(m)
     /\ IF m.turnComplete
          THEN /\ Len(messages) + Len(new) <= MaxLog
               /\ messages' = appendMessages(messages, new)
               /\ currentUserTranscriptionRef' = <<>>
               /\ currentTutorTranscriptionRef' = <<>>
               /\ displayUserTranscription' = <<>>
               /\ displayTutorTranscription' = <<>>
          ELSE /\ messages' = messages
               /\ currentUserTranscriptionRef' = user
               /\ currentTutorTranscriptionRef' = tutor
               /\ displayUserTranscription' =
                    IF m.inT # <<>> THEN user ELSE displayUserTranscription
               /\ displayTutorTranscription' =
                    IF m.outT # <<>> THEN tutor ELSE displayTutorTranscription

\* onmessage of session s, from its start to its first await or its end
onmessage(s, m) ==
  /\ conn[s] = "open"
  /\ Len(sources) + PendingParts(inflight) + Len(m.parts) <= MaxFrags
  /\ m.parts # <<>> => Len(inflight) < MaxInflight
  /\ onmessageText(m)
  /\ LET r == partsLoop([h |-> H, fl |-> inflight, ai |-> afterIntr], s, m.parts,
                        m.interrupted, FALSE, NextIdx)
     IN /\ SetHeap(r.h)
        /\ inflight' = r.fl
        /\ afterIntr' = r.ai
        /\ last' = DidMsg("onmessage_" \o r.end, s, m.turnComplete, m.interrupted)
  /\ UNCHANGED <<credVars, conn, micPending, currentTime, capVars>>

\* onmessage resumed with a decoded buffer: lines 229-235, then on through the
\* loop. The k-th suspended invocation is the one whose decode resolves.
Without(fl, k) == SubSeq(fl, 1, k - 1) \o SubSeq(fl, k + 1, Len(fl))

cursorNotAdvanced(cursor, duration) == cursor

advanceCursor(cursor, duration) == cursor + duration

onmessageDecoded(k) ==
  /\ k \in DOMAIN inflight
  /\ LET w      == inflight[k]
         buffer == decodeAudioData(w.data)
         id     == Len(sources) + 1
         node   == [start |-> nextStartTimeRef, duration |-> buffer, st |-> "playing",
                    ctx |-> w.ctx, s |-> w.s]
         h1     == [H EXCEPT !.sources = Append(@, node),
                             !.nextStartTimeRef = advanceCursor(@, buffer),
                             !.audioPlaybackSources = @ \cup {id}]
         r      == partsLoop([h |-> h1, fl |-> Without(inflight, k), ai |-> afterIntr],
                             w.s, w.rest, w.intr, w.pre, w.idx + 1)
     IN /\ SetHeap(r.h)
        /\ inflight' = Renumber(r.fl)
        /\ afterIntr' = r.ai
        /\ last' = [DidStart("decoded_" \o r.end, w) EXCEPT
                       !.late = \E j \in DOMAIN inflight : inflight[j].idx < w.idx]
  /\ UNCHANGED <<credVars, textVars, conn, micPending, currentTime,
                 turnU, turnT, turnOpen, emitU, emitT, emitOpen, capVars>>

\* onmessage resumed with decodeAudioData rejecting: nothing catches it, the
\* invocation ends at line 228.
onmessageDecodeFailed(k) ==
  /\ k \in DOMAIN inflight
  /\ inflight' = Renumber(Without(inflight, k))
  /\ last' = DidStart("decoded_fail", inflight[k])
  /\ UNCHANGED <<credVars, textVars, heapVars, conn, micPending, currentTime,
                 histVars, capVars>>

\* source.onended after the buffer has played to its end
onended(i) ==
  /\ i \in DOMAIN sources
  /\ sources[i].st = "playing"
  /\ sources[i].ctx = outputAudioContextRef
  /\ currentTime >= sources[i].start + sources[i].duration
  /\ sources' = [sources EXCEPT ![i].st = "ended"]
  /\ audioPlaybackSources' = audioPlaybackSources \ {i}
  /\ last' = Did("onended", sources[i].s, FALSE)
  /\ UNCHANGED <<credVars, textVars, isSessionActive, statusMessage, sessionPromiseRef,
                 streamRef, inputAudioContextRef, outputAudioContextRef,
                 scriptProcessorRef, mediaStreamSourceRef, nextStartTimeRef, closeAsked,
                 inputCtx, outputCtx, stream, processor, mediaSource, closeRejected,
                 flushMark, conn,
                 micPending, inflight, currentTime, histVars,
                 capVars>>

\* source.onended of a buffer that source.stop() has ended, its context still
\* running: line 232 deletes a source the flush has already forgotten.
onendedLate(i) ==
  /\ i \in DOMAIN sources
  /\ sources[i].st = "stopped"
  /\ sources[i].ctx = outputAudioContextRef
  /\ sources' = [sources EXCEPT ![i].st = "notified"]
  /\ audioPlaybackSources' = audioPlaybackSources \ {i}
  /\ last' = Did("onended_late", sources[i].s, FALSE)
  /\ UNCHANGED <<credVars, textVars, isSessionActive, statusMessage, sessionPromiseRef,
                 streamRef, inputAudioContextRef, outputAudioContextRef,
                 scriptProcessorRef, mediaStreamSourceRef, nextStartTimeRef, closeAsked,
                 inputCtx, outputCtx, stream, processor, mediaSource, closeRejected,
                 flushMark, conn, micPending, inflight, currentTime, histVars,
                 capVars>>

\* The clock of the running output context advances while a buffer scheduled
\* on it has still to reach its end.
PlayOut ==
  /\ outputAudioContextRef # 0
  /\ \E i \in DOMAIN sources :
       /\ sources[i].st = "playing"
       /\ sources[i].ctx = outputAudioContextRef
       /\ currentTime < sources[i].start + sources[i].duration
  /\ currentTime' = currentTime + 1
  /\ last' = Did("tick", 0, FALSE)
  /\ UNCHANGED <<credVars, textVars, heapVars, conn, micPending, inflight, histVars,
                 capVars>>

\* The clock of the running output context advances.
Tick ==
  /\ outputAudioContextRef # 0
  /\ currentTime < MaxTime
  /\ currentTime' = currentTime + 1
  /\ last' = Did("tick", 0, FALSE)
  /\ UNCHANGED <<credVars, textVars, heapVars, conn, micPending, inflight, histVars,
                 capVars>>

\* ------------------------------------------------------------------ inputs
KeyInputs == {"blank", "bad", "good"}
Outcomes  == {"ok", "throw"}

MaxLifeFrags == 1   \* audio fragments accepted over a run of Spec

\* Messages of the lifecycle specification
LifeMsgs ==
  { Msg(<<"a">>, <<>>, TRUE, <<>>, FALSE),
    Msg(<<>>, <<>>, FALSE, <<1>>, FALSE) }

LifeMessage(s, m) ==
  /\ Len(sources) + PendingParts(inflight) + Len(m.parts) <= MaxLifeFrags
  /\ onmessage(s, m)

\* Messages of the playback specification: audio and interruptions, no text
Durations == {1, 2}
PlayMsgs ==
  { Msg(<<>>, <<>>, FALSE, <<d>>, intr) : d \in Durations, intr \in BOOLEAN }
  \cup { Msg(<<>>, <<>>, FALSE, <<1, 1>>, FALSE), Msg(<<>>, <<>>, FALSE, <<>>, TRUE) }

\* Messages of the transcript specification: text and turn completion, no audio
Frags == { <<>>, <<"a">>, <<" ">> }
TurnMsgs ==
  { Msg(u, t, tc, <<>>, FALSE) : u \in Frags, t \in Frags, tc \in BOOLEAN }

\* Messages of the playing-out specification: one fragment, or an
\* interruption
LiveMsgs ==
  { Msg(<<>>, <<>>, FALSE, <<d>>, FALSE) : d \in 1..MaxTime }
    \cup { Msg(<<>>, <<>>, FALSE, <<>>, TRUE) }

\* The user starts one session and leaves it running.
StartOnce ==
  /\ NewId = 1
  /\ handleMicButtonClick("ok")

\* The user stops the running session with the microphone button.
StopClick ==
  /\ isSessionActive
  /\ handleMicButtonClick("ok")

\* ------------------------------------------------------------------ specifications
\* The whole lifecycle, with a little traffic.
Next ==
  \/ \E input \in KeyInputs : handleSaveApiKey(input)
  \/ \E o \in Outcomes : NewSessionClick(o)
  \/ \E o \in Outcomes : handleMicButtonClick(o)
  \/ \E s \in Sessions : onopen(s)
  \/ \E s \in Sessions : onopenGranted(s)
  \/ \E s \in Sessions : onopenDenied(s)
  \/ \E s \in Sessions : onerror(s)
  \/ \E s \in Sessions : onclose(s)
  \/ \E s \in Sessions, m \in LifeMsgs : LifeMessage(s, m)
  \/ \E k \in 1..MaxInflight : onmessageDecoded(k)

Spec == Init /\ [][Next]_vars

\* Playback within one session: audio traffic, interruptions, the audio clock,
\* the stop button.
NextPlay ==
  \/ handleSaveApiKey("good")
  \/ StartOnce
  \/ \E s \in Sessions : onopen(s)
  \/ \E s \in Sessions, m \in PlayMsgs : onmessage(s, m)
  \/ \E k \in 1..MaxInflight : onmessageDecoded(k)
  \/ \E k \in 1..MaxInflight : onmessageDecodeFailed(k)
  \/ \E i \in 1..MaxFrags : onended(i)
  \/ Tick
  \/ StopClick

SpecPlay == Init /\ [][NextPlay]_vars

\* Transcripts within one session: text traffic and turn completions.
NextTurn ==
  \/ handleSaveApiKey("good")
  \/ StartOnce
  \/ \E s \in Sessions : onopen(s)
  \/ \E s \in Sessions, m \in TurnMsgs : onmessage(s, m)

SpecTurn == Init /\ [][NextTurn]_vars

\* Capture: sessions started and stopped, the microphone, frames going out.
NextCapture ==
  \/ handleSaveApiKey("good")
  \/ handleMicButtonClick("ok")
  \/ \E s \in Sessions : onopen(s)
  \/ \E s \in Sessions : onopenGranted(s)
  \/ \E s \in Sessions : sessionResolved(s)
  \/ \E s \in Sessions : onaudioprocess(s)

SpecCapture == Init /\ [][NextCapture]_vars

\* Playing out: a little audio, then none; whatever is due happens. A decode
\* settles, the clock of a running context runs, an end-of-playback
\* notification that is due is delivered.
NextLive ==
  \/ handleSaveApiKey("good")
  \/ StartOnce
  \/ \E s \in Sessions : onopen(s)
  \/ \E s \in Sessions, m \in LiveMsgs : LifeMessage(s, m)
  \/ \E k \in 1..MaxInflight : onmessageDecoded(k)
  \/ \E i \in 1..MaxFrags : onended(i)
  \/ \E i \in 1..MaxFrags : onendedLate(i)
  \/ PlayOut
  \/ StopClick

SpecLive ==
  /\ Init /\ [][NextLive]_vars
  /\ WF_vars(PlayOut)
  /\ \A k \in 1..MaxInflight : WF_vars(onmessageDecoded(k))
  /\ \A i \in 1..MaxFrags : WF_vars(onended(i)) /\ WF_vars(onendedLate(i))

\* ------------------------------------------------------------------ properties
MessageOps == {"onmessage_done", "onmessage_await", "onmessage_throw"}
StartedOps == {"decoded_done", "decoded_await", "decoded_throw"}
\* The handlers whose last act is stopSession
StopOps    == {"mic_stop", "onerror", "onclose", "onopen_denied", "onopen_throw"}

\* The messages a completed turn with these texts is to append
Expected(userText, tutorText) ==
  (IF userText # <<>> THEN <<[role |-> "user", content |-> userText]>> ELSE <<>>)
  \o (IF tutorText # <<>> THEN <<[role |-> "ai", content |-> tutorText]>> ELSE <<>>)

\* C1: a message with turnComplete appends exactly the stripped text of the
\* user fragments of the turn (if any is left), then that of the assistant
\* fragments (if any is left), and leaves both accumulators and both live
\* displays empty.
C1_TurnCompleteEmits ==
  [][(last'.op \in MessageOps /\ last'.tc) =>
       /\ messages' = messages \o Expected(Stripped(turnU'), Stripped(turnT'))
       /\ currentUserTranscriptionRef' = <<>>
       /\ currentTutorTranscriptionRef' = <<>>
       /\ displayUserTranscription' = <<>>
       /\ displayTutorTranscription' = <<>>]_vars

\* A turn has just completed with text of both speakers, and stripping changed
\* the user's.
C1_Witness ==
  /\ last.op \in MessageOps /\ last.tc
  /\ Len(messages) = 2
  /\ messages[1].role = "user" /\ messages[2].role = "ai"
  /\ turnU # Stripped(turnU)
  /\ currentUserTranscriptionRef = <<>>

C3_InterruptionResets ==
  /\ (last.intr /\ last.op \in {"onmessage_done", "decoded_done"})
       => (audioPlaybackSources = {} /\ nextStartTimeRef = 0)
  /\ (last.op \in StartedOps /\ last.first /\ ~last.pre /\ ~last.conc
        /\ last.s \notin closeAsked)
       => sources[Len(sources)].start = last.recv

\* C4: stopSession is idempotent on every reachable state, and the second call
\* closes no context that is already closed.
C4_StopIdempotent ==
  LET once == stopSession(H)
  IN /\ stopSession(once) = once
     /\ once.closeRejected = closeRejected

\* The stop sequence has just torn down a session with its microphone, and a
\* further call would change nothing.
C4_Witness ==
  /\ last.op \in StopOps
  /\ \E s \in Sessions : stream[s] = "stopped" /\ s \in closeAsked
  /\ stopSession(H) = H

\* C5: without a credential client a start request (microphone button or
\* handleNewSession) opens the key dialog, creates no audio context, opens no
\* connection and does not announce a connection attempt.
C5_NoCredentialNoStart ==
  [][(~aiRef /\ last'.op \in {"new", "mic_modal", "mic_start"}) =>
       /\ isApiKeyModalOpen'
       /\ inputCtx' = inputCtx /\ outputCtx' = outputCtx
       /\ conn' = conn /\ sessionPromiseRef' = sessionPromiseRef
       /\ statusMessage' # "Connecting to tutor..."]_vars

\* handleNewSession has just been refused for want of a credential.
C5_Witness ==
  /\ ~aiRef
  /\ last.op = "new"
  /\ statusMessage = "API Key not set. Please set it in the settings."
  /\ isApiKeyModalOpen
  /\ \A s \in Sessions : conn[s] = "none" /\ inputCtx[s] = "none"

\* C6: every connection that is pending or open and has not been asked to
\* close is the one sessionPromiseRef holds, so there is at most one.
C6_SingleLiveSession ==
  \A s \in Sessions :
    (conn[s] \in {"pending", "open"} /\ s \notin closeAsked) => sessionPromiseRef = s

\* C7: whatever triggers the stop sequence, when it has run the stream held or
\* just acquired is stopped and its ref null, the capture nodes are
\* disconnected and their refs null, both contexts held are closed, the
\* session held has been asked to close and its ref is null, every tracked
\* source is stopped and the set empty, the cursor is zero and the session is
\* not active.
C7_StopTearsDown ==
  [][last'.op \in StopOps =>
       /\ streamRef' = 0
       /\ (streamRef # 0 => stream'[streamRef] = "stopped")
       /\ \A s \in Sessions : (stream[s] = "none" /\ stream'[s] # "none")
                                => stream'[s] = "stopped"
       /\ scriptProcessorRef' = 0 /\ mediaStreamSourceRef' = 0
       /\ (scriptProcessorRef # 0 => processor'[scriptProcessorRef] = "disconnected")
       /\ (mediaStreamSourceRef # 0
             => mediaSource'[mediaStreamSourceRef] = "disconnected")
       /\ (inputAudioContextRef # 0 => inputCtx'[inputAudioContextRef] = "closed")
       /\ (outputAudioContextRef # 0 => outputCtx'[outputAudioContextRef] = "closed")
       /\ sessionPromiseRef' = 0
       /\ (sessionPromiseRef # 0 => sessionPromiseRef \in closeAsked')
       /\ audioPlaybackSources' = {}
       /\ \A i \in audioPlaybackSources : sources'[i].st = "stopped"
       /\ nextStartTimeRef' = 0
       /\ ~isSessionActive']_vars

\* A connection error has just torn down a session that had its microphone,
\* its capture nodes and a playing buffer.
C7_Witness ==
  /\ last.op = "onerror"
  /\ \E s \in Sessions :
       /\ stream[s] = "stopped" /\ processor[s] = "disconnected"
       /\ inputCtx[s] = "closed" /\ outputCtx[s] = "closed"
       /\ s \in closeAsked
  /\ \E i \in DOMAIN sources : sources[i].st = "stopped"

\* Operations run by a session's callbacks and their continuations.
CallbackOps ==
  {"onopen", "onopen_granted", "onopen_throw", "onopen_denied", "onerror", "onclose"}
  \cup MessageOps \cup StartedOps

\* C8: a callback, microphone grant or decode of a session that has been
\* stopped, arriving while a later session is held, leaves the capture refs,
\* the transcript, the playback set and the later session alone.
C8_StoppedSessionDiscarded ==
  [][(/\ last'.op \in CallbackOps
      /\ last'.s \in closeAsked
      /\ sessionPromiseRef # 0 /\ sessionPromiseRef # last'.s) =>
       UNCHANGED <<streamRef, scriptProcessorRef, mediaStreamSourceRef,
                   messages, currentUserTranscriptionRef, currentTutorTranscriptionRef,
                   audioPlaybackSources, sessionPromiseRef, inputAudioContextRef,
                   outputAudioContextRef, isSessionActive>>]_vars

\* C9: a turnComplete that finds no text but white space appends nothing, and
\* every completed turn appends what it would have appended had the turn
\* completions without text before it not occurred.
C9_EmptyTurnHarmless ==
  [][(last'.op \in MessageOps /\ last'.tc) =>
       /\ (Stripped(turnU') = <<>> /\ Stripped(turnT') = <<>>) => messages' = messages
       /\ messages' = messages \o Expected(Stripped(emitU'), Stripped(emitT'))]_vars

\* A turn has just completed with text, after a turn completion that found
\* only white space.
C9_Witness ==
  /\ last.op \in MessageOps /\ last.tc
  /\ messages # <<>>
  /\ ~emitOpen
  /\ emitU # turnU
  /\ Stripped(emitU) # <<>>

\* C10: when an interruption has been handled every buffer started so far is
\* stopped or ended, the tracked set is empty and the cursor zero, and no
\* fragment that arrived before an interruption is started after it.
C10_InterruptionStopsAll ==
  /\ (last.intr /\ last.op \in {"onmessage_done", "decoded_done"})
       => /\ audioPlaybackSources = {}
          /\ nextStartTimeRef = 0
          /\ \A i \in DOMAIN sources : sources[i].st # "playing"
  /\ last.op \in StartedOps => ~last.pre

\* The frames handed to the promise of session s, in the order of capture
HandedTo(s) == {i \in DOMAIN frames : frames[i] = s}

\* C11: the frames handed to a promise are, in the order they were captured,
\* those sent followed by those still waiting for it, and none waits once the
\* promise has resolved.
C11_FramesDeferredInOrder ==
  \A s \in Sessions :
    LET all == sent[s] \o queued[s]
    IN /\ {all[j] : j \in DOMAIN all} = HandedTo(s)
       /\ \A j \in 1..(Len(all) - 1) : all[j] < all[j + 1]
       /\ s \in resolved => queued[s] = <<>>

\* A promise has just resolved with two frames waiting for it, now sent.
C11_Witness ==
  /\ last.op = "resolved"
  /\ Len(sent[last.s]) >= 2
  /\ queued[last.s] = <<>>

\* C12: when the decode of a fragment fails the session stays active, the
\* fragments that follow it in the same message are still waited for, an
\* interrupted flag the message carries is applied once they are through, and
\* otherwise the tracked set is as it was.
C12_DecodeFailureDropsOneFragment ==
  [][last'.op = "decoded_fail" =>
       \E k \in DOMAIN inflight :
         LET w == inflight[k]
         IN /\ last' = DidStart("decoded_fail", w)
            /\ isSessionActive' = isSessionActive
            /\ w.rest # <<>> =>
                  /\ PendingParts(inflight') = PendingParts(inflight) - 1
                  /\ audioPlaybackSources' = audioPlaybackSources
            /\ (w.rest = <<>> /\ w.intr) =>
                  /\ audioPlaybackSources' = {}
                  /\ nextStartTimeRef' = 0
            /\ (w.rest = <<>> /\ ~w.intr) =>
                  audioPlaybackSources' = audioPlaybackSources]_vars

\* C13: a message event leaves the log it found as a prefix of the log it
\* leaves, adds to it only when it carries turnComplete, and what it adds is
\* the text of the turn it completes: turns appear in the order they completed.
C13_LogGrowsInTurnOrder ==
  [][last'.op \in MessageOps =>
       /\ Len(messages') >= Len(messages)
       /\ SubSeq(messages', 1, Len(messages)) = messages
       /\ ~last'.tc => messages' = messages
       /\ \A j \in (Len(messages) + 1)..Len(messages') :
            messages'[j].content \in {Stripped(turnU'), Stripped(turnT')}]_vars

\* A second turn has just completed: the log holds the assistant's message of
\* the first turn, then the user's message of the second.
C13_Witness ==
  /\ last.op \in MessageOps /\ last.tc
  /\ Len(messages) = 2
  /\ messages[1].role = "ai" /\ messages[2].role = "user"
  /\ Stripped(turnT) = <<>>

\* C14: no step of any handler alters or removes a message already in the log.
C14_LogNeverShrinks ==
  [][/\ Len(messages') >= Len(messages)
     /\ SubSeq(messages', 1, Len(messages)) = messages]_vars

\* The start request whose try block threw: the catch of handleNewSession ran.
StartFailed ==
  /\ last'.op \in {"new", "mic_start"}
  /\ statusMessage' = "Failed to start session. Check your API key or connection."

\* C16: after a failure reported by a callback the contexts, stream and handle
\* the refs held are closed, stopped and asked to close; after a start that
\* threw, the two contexts that start created are not left running and no ref
\* holds them.
C16_FailuresRunStop ==
  [][/\ last'.op \in {"onerror", "onclose", "onopen_denied", "onopen_throw"} =>
          /\ (inputAudioContextRef # 0 => inputCtx'[inputAudioContextRef] = "closed")
          /\ (outputAudioContextRef # 0 => outputCtx'[outputAudioContextRef] = "closed")
          /\ (streamRef # 0 => stream'[streamRef] = "stopped")
          /\ (sessionPromiseRef # 0 => sessionPromiseRef \in closeAsked')
          /\ sessionPromiseRef' = 0
     /\ StartFailed =>
          /\ inputCtx'[NewId] # "running"
          /\ outputCtx'[NewId] # "running"
          /\ inputAudioContextRef' # NewId
          /\ outputAudioContextRef' # NewId]_vars

\* C17: when onerror or a refused microphone has torn the session down, the
\* status shown is that failure's message.
C17_FailureStatusKept ==
  [][/\ last'.op = "onerror" =>
          statusMessage' = "A connection error occurred. Please restart."
     /\ last'.op = "onopen_denied" =>
          statusMessage' = "Microphone access denied. Please allow permission."]_vars

\* C18: when connecting fails, by onerror before onopen or by the start
\* throwing, the client is idle and the key dialog is open.
C18_ConnectFailureReopensOnboarding ==
  [][((last'.op = "onerror" /\ conn[last'.s] = "pending") \/ StartFailed) =>
       /\ isApiKeyModalOpen'
       /\ ~isSessionActive']_vars

\* The steps that flush playback: stopSession, and the end of a handler whose
\* message carried the interrupted flag.
FlushStep == last'.stop \/ (last'.intr /\ last'.op \in {"onmessage_done", "decoded_done"})

\* C15: in every step the cursor stays or grows, or the step is a flush and
\* leaves it at zero.
C15_CursorMonotone ==
  [][\/ nextStartTimeRef' >= nextStartTimeRef
     \/ FlushStep /\ nextStartTimeRef' = 0]_vars

\* The stop button has just rewound the cursor over a buffer that was playing.
C15_Witness ==
  /\ last.op = "mic_stop"
  /\ nextStartTimeRef = 0
  /\ \E i \in DOMAIN sources :
       sources[i].st = "stopped" /\ sources[i].start + sources[i].duration > 0

\* C20: a buffer is started at a time that is not before the clock's value at
\* that moment.
C20_StartNotInPast ==
  last.op \in StartedOps => sources[Len(sources)].start >= currentTime

\* C19: no onmessage invocation begins while another one is suspended, and
\* the buffers are started in the order the service emitted their fragments.
C19_CallbacksRunToCompletion ==
  [][/\ last'.op \in MessageOps => inflight = <<>>
     /\ last'.op \in StartedOps => ~last'.late]_vars

\* C22: while the session is flagged active a session handle is held.
C22_ActiveHoldsHandle ==
  isSessionActive => sessionPromiseRef # 0

\* C23: while no session handle is held the tracked set is empty and the
\* cursor is zero.
C23_IdleIsFlushed ==
  sessionPromiseRef = 0 => (audioPlaybackSources = {} /\ nextStartTimeRef = 0)

\* A start request that got past the credential check.
Started ==
  /\ last'.op \in {"new", "mic_start"}
  /\ ~CredentialMissing

\* C24: a start empties the log, both accumulators and both displays, and
\* from then on only messages of the session started last touch them.
C24_NewSessionStartsClean ==
  [][/\ Started =>
          /\ messages' = <<>>
          /\ currentUserTranscriptionRef' = <<>>
          /\ currentTutorTranscriptionRef' = <<>>
          /\ displayUserTranscription' = <<>>
          /\ displayTutorTranscription' = <<>>
     /\ (last'.op \in MessageOps /\ textVars' # textVars) => last'.s = NewId - 1]_vars

\* The buffers started that have neither ended nor been stopped by a flush
Playing == {i \in DOMAIN sources : sources[i].st = "playing"}

====
